---- MODULE Spec2Model ----
(***************************************************************************)
(* subsai web UI (src/src/subsai/webui.py): the configuration coercer      *)
(* _get_config_from_session_state, the memoized _transcribe and the        *)
(* session's subtitle documents (transcribe / translate / reload / edit).  *)
(*                                                                         *)
(* Python values are tagged records [t, s, n] so that values of different  *)
(* Python types can be compared: t is the Python type, s the characters of *)
(* a str, n the number of an int / bool, the number of tenths of a float,  *)
(* or the object id of a reference to a subtitle document.                 *)
(***************************************************************************)
EXTENDS Integers, Sequences, FiniteSets, TLC

VARIABLES
    session_state,   \* [Sessions -> dict]: st.session_state of every browser session
    heap,            \* [ObjIds -> document | Free]: the SSAFile objects alive in the process
    cache,           \* dict CacheKey -> document: the store behind @st.cache_data on _transcribe
    lock,            \* set of CacheKeys whose compute lock is held
    pc,              \* [Sessions -> position of the session's script thread]
    frame,           \* [Sessions -> locals of the running Transcribe handler]
    notification,    \* [Sessions -> sequence of messages shown by the last handler]
    invoked,         \* history: dict arguments -> number of model invocations started
    returned,        \* history: dict arguments -> set of documents _transcribe returned
    failures,        \* history: number of model invocations that raised
    rollback,        \* history: [Sessions -> the document before the last translation]
    parent,          \* history: [Sessions -> reference to the object the current document was
                     \*   translated from, None after a transcription or a reload]
    exported,        \* [Sessions -> the last call of subs.save by the Export handler]
    registry,        \* the module-level dict AVAILABLE_MODELS
    cSchema,         \* coercer harness: the config_schema argument
    cState,          \* coercer harness: the st.session_state the call reads
    cResult,         \* coercer harness: the outcome of the call
    cRound,          \* coercer harness: the outcome of the call on the returned config
    tmStore,         \* dict model_name -> instance: the store behind @st.cache_resource
    tmLock,          \* set of model_names whose compute lock is held
    tmPc,            \* [Sessions -> position inside _create_translation_model]
    tmBuilt,         \* history: dict model_name -> number of backends constructed
    tmGot,           \* history: dict model_name -> set of instances handed back
    tmRaised,        \* history: number of constructions that raised
    kArgs,           \* key harness: the model_config of each direct call of _transcribe
    kDone,           \* key harness: the number of calls made
    ytUrl,           \* [Sessions -> the text of the 'video url' input at the last rerun]
    downloaded       \* history: [Sessions -> dict URL -> number of downloads that returned]

vars == <<session_state, heap, cache, lock, pc, frame, notification,
          invoked, returned, failures, rollback, parent, exported, registry,
          cSchema, cState, cResult, cRound,
          tmStore, tmLock, tmPc, tmBuilt, tmGot, tmRaised, kArgs, kDone,
          ytUrl, downloaded>>

sessionVars == <<session_state, heap, cache, lock, pc, frame, notification,
                 invoked, returned, failures, rollback, parent>>

coerceVars == <<cSchema, cState, cResult>>

resourceVars == <<tmStore, tmLock, tmPc, tmBuilt, tmGot, tmRaised>>

keyVars == <<kArgs, kDone>>

\* what the Transcribe and the post processing handlers neither read nor write
youtubeVars == <<ytUrl, downloaded>>

otherVars == <<exported, registry, coerceVars, cRound, resourceVars, keyVars,
               youtubeVars>>

-----------------------------------------------------------------------------
(* Python values *)

StrV(chars) == [t |-> "str", s |-> chars, n |-> 0]

IntV(i) == [t |-> "int", s |-> <<>>, n |-> i]

\* a float, held as its number of tenths (1.5 is FloatV(15))
FloatV(tenths) == [t |-> "float", s |-> <<>>, n |-> tenths]

BoolV(b) == [t |-> "bool", s |-> <<>>, n |-> IF b THEN 1 ELSE 0]

PyNone == [t |-> "none", s |-> <<>>, n |-> 0]

\* a reference to the SSAFile object with id o
RefV(o) == [t |-> "ref", s |-> <<>>, n |-> o]

\* dict assignment d[k] = v
Put(d, k, v) == [x \in (DOMAIN d) \cup {k} |-> IF x = k THEN v ELSE d[x]]

EmptyDict == [x \in {} |-> PyNone]

-----------------------------------------------------------------------------
(* int(value) and float(value) *)

Digits == {"0", "1", "2", "3", "4", "5", "6", "7", "8", "9"}

DigitVal(c) ==
    CASE c = "0" -> 0 [] c = "1" -> 1 [] c = "2" -> 2 [] c = "3" -> 3
      [] c = "4" -> 4 [] c = "5" -> 5 [] c = "6" -> 6 [] c = "7" -> 7
      [] c = "8" -> 8 [] c = "9" -> 9

AllDigits(chars) == chars # <<>> /\ \A i \in 1..Len(chars) : chars[i] \in Digits

RECURSIVE DigitsValue(_)
DigitsValue(chars) ==
    IF chars = <<>> THEN 0
    ELSE DigitsValue(SubSeq(chars, 1, Len(chars) - 1)) * 10 + DigitVal(chars[Len(chars)])

HasSign(chars) == chars # <<>> /\ chars[1] \in {"-", "+"}

Unsigned(chars) == IF HasSign(chars) THEN Tail(chars) ELSE chars

Signed(chars, magnitude) ==
    IF chars # <<>> /\ chars[1] = "-" THEN 0 - magnitude ELSE magnitude

Returned(v) == [raised |-> FALSE, value |-> v]

\* an exception that is not KeyError: str(e) quotes the offending value
Raised(v) == [raised |-> TRUE, value |-> v]

\* int(value): a str must be an optionally signed run of digits (ValueError
\* otherwise), a float is truncated towards zero, a bool is 0 or 1, None is a
\* TypeError.
PyInt(value) ==
    CASE value.t = "str" ->
            IF AllDigits(Unsigned(value.s))
            THEN Returned(IntV(Signed(value.s, DigitsValue(Unsigned(value.s)))))
            ELSE Raised(value)
      [] value.t = "int" -> Returned(value)
      [] value.t = "bool" -> Returned(IntV(value.n))
      [] value.t = "float" ->
            Returned(IntV(IF value.n >= 0 THEN value.n \div 10
                          ELSE 0 - ((0 - value.n) \div 10)))
      [] OTHER -> Raised(value)

DotPositions(chars) == {i \in 1..Len(chars) : chars[i] = "."}

\* float(value): a str is an optionally signed decimal numeral with at most one
\* point and digits on at least one side of it; an int or bool is widened.
\* Fractions are kept to one digit, the precision of FloatV.
PyFloat(value) ==
    CASE value.t = "str" ->
            LET body == Unsigned(value.s)
                dots == DotPositions(body)
            IN  IF dots = {}
                THEN IF AllDigits(body)
                     THEN Returned(FloatV(Signed(value.s, DigitsValue(body) * 10)))
                     ELSE Raised(value)
                ELSE IF Cardinality(dots) = 1
                THEN LET d == CHOOSE i \in dots : TRUE
                         ip == SubSeq(body, 1, d - 1)
                         fp == SubSeq(body, d + 1, Len(body))
                     IN  IF /\ (ip # <<>> \/ fp # <<>>)
                            /\ (ip = <<>> \/ AllDigits(ip))
                            /\ (fp = <<>> \/ (AllDigits(fp) /\ Len(fp) = 1))
                         THEN Returned(FloatV(Signed(value.s,
                                  DigitsValue(ip) * 10 + DigitsValue(fp))))
                         ELSE Raised(value)
                ELSE Raised(value)
      [] value.t = "float" -> Returned(value)
      [] value.t = "int" -> Returned(FloatV(value.n * 10))
      [] value.t = "bool" -> Returned(FloatV(value.n * 10))
      [] OTHER -> Raised(value)

-----------------------------------------------------------------------------
(* _get_key and _get_config_from_session_state *)

\* model_name + '-' + config_name, kept as its three parts; every key of
\* st.session_state is a tuple of strings
GetKey(model_name, config_name) == <<model_name, "-", config_name>>

\* value == 'None' or value == ''
IsNoneOrEmpty(value) ==
    value.t = "str" /\ (value.s = <<"N", "o", "n", "e">> \/ value.s = <<>>)

\* mutant: the integer branch tests for 'None' only, so '' reaches int()
CoerceValue_KeepsEmpty(type, value) ==
    IF type = "str"
    THEN IF IsNoneOrEmpty(value) THEN Returned(PyNone) ELSE Returned(value)
    ELSE IF type = "float"
    THEN IF IsNoneOrEmpty(value) THEN Returned(PyNone) ELSE PyFloat(value)
    ELSE IF type = "int"
    THEN IF value.t = "str" /\ value.s = <<"N", "o", "n", "e">>
         THEN Returned(PyNone) ELSE PyInt(value)
    ELSE Returned(value)

\* the body of the try block for one parameter, once st.session_state[key] is read
CoerceValue(type, value) ==
    IF type = "str"
    THEN IF IsNoneOrEmpty(value) THEN Returned(PyNone) ELSE Returned(value)
    ELSE IF type = "float"
    THEN IF IsNoneOrEmpty(value) THEN Returned(PyNone) ELSE PyFloat(value)
    ELSE IF type = "int"
    THEN IF IsNoneOrEmpty(value) THEN Returned(PyNone) ELSE PyInt(value)
    ELSE Returned(value)

\* what the function hands back: a dict (its items in insertion order) or None
DictResult(items) == [isDict |-> TRUE, items |-> items]

NoneResult == [isDict |-> FALSE, items |-> <<>>]

ParseError(e) == [msg |-> "Problem parsing configs!!", e |-> e]

\* mutant: the parameters are taken in reverse order
SchemaOrder_Reversed(config_schema) ==
    [i \in 1..Len(config_schema) |-> config_schema[Len(config_schema) + 1 - i]]

\* for config_name in config_schema: a dict iterates in insertion order
SchemaOrder(config_schema) == config_schema

\* mutant: a parameter with no raw value gets its default
OnKeyError_AddsDefault(model_config, param) ==
    Append(model_config, <<param.name, param.default>>)

\* except KeyError: pass -- the parameter gets no item
OnKeyError(model_config, param) == model_config

RECURSIVE CoerceFrom(_, _, _, _, _)

\* mutant: the error is reported but the items gathered so far are returned
OnParseError_ReturnsPartial(ss, model_name, params, model_config, visited, e) ==
    [ret |-> DictResult(model_config),
     errors |-> <<ParseError(e)>>,
     visited |-> visited]

\* except Exception: report str(e) and return None
OnParseError(ss, model_name, params, model_config, visited, e) ==
    [ret |-> NoneResult,
     errors |-> <<ParseError(e)>>,
     visited |-> visited]

\* the loop of _get_config_from_session_state over the parameters still to do;
\* model_config holds the items assigned so far, visited the parameters whose
\* key has been looked up (history).
CoerceFrom(ss, model_name, params, model_config, visited) ==
    IF params = <<>>
    THEN [ret |-> DictResult(model_config), errors |-> <<>>, visited |-> visited]
    ELSE LET param == Head(params)
             key == GetKey(model_name, param.name)
             seen == Append(visited, param.name)
         IN  IF key \notin DOMAIN ss
             THEN CoerceFrom(ss, model_name, Tail(params),
                             OnKeyError(model_config, param), seen)
             ELSE LET r == CoerceValue(param.type, ss[key])
                  IN  IF r.raised
                      THEN OnParseError(ss, model_name, Tail(params),
                                        model_config, seen, r.value)
                      ELSE CoerceFrom(ss, model_name, Tail(params),
                                      Append(model_config, <<param.name, r.value>>),
                                      seen)

GetConfigFromSessionState(ss, model_name, config_schema) ==
    CoerceFrom(ss, model_name, SchemaOrder(config_schema), <<>>, <<>>)

-----------------------------------------------------------------------------
(* The coercer on its own: every schema of up to MaxParams parameters and   *)
(* every st.session_state over their keys.                                  *)

MaxParams == 2

stt_model_name == "openai/whisper"

ParamNames == <<"p1", "p2", "p3", "p4">>

Tiny == StrV(<<"t", "i", "n", "y">>)

Base == StrV(<<"b", "a", "s", "e">>)

Small == StrV(<<"s", "m", "a", "l", "l">>)

Giant == StrV(<<"g", "i", "a", "n", "t">>)

NoneStr == StrV(<<"N", "o", "n", "e">>)

EmptyStr == StrV(<<>>)

Seven == StrV(<<"7">>)

OnePointFive == StrV(<<"1", ".", "5">>)

\* one parameter kind per type tag (type, options, default), as the entries of
\* a config_schema are written
ParamKinds ==
    { [type |-> "str", options |-> <<>>, default |-> Base],
      [type |-> "list", options |-> <<Tiny, Base, Small>>, default |-> Base],
      [type |-> "float", options |-> <<>>, default |-> IntV(0)],
      [type |-> "int", options |-> <<>>, default |-> PyNone],
      [type |-> "bool", options |-> <<>>, default |-> BoolV(FALSE)] }

ParamSpec(name, kind) ==
    [name |-> name, type |-> kind.type, options |-> kind.options,
     default |-> kind.default]

Schemas ==
    UNION { { [i \in 1..len |-> ParamSpec(ParamNames[i], kinds[i])] :
              kinds \in [1..len -> ParamKinds] } : len \in 1..MaxParams }

RawValues ==
    { EmptyStr, NoneStr, Seven, OnePointFive, Base, Giant,
      IntV(7), FloatV(15), BoolV(TRUE), PyNone }

Missing == [t |-> "missing", s |-> <<>>, n |-> 0]

\* the dict holding the entries of f that are not Missing
DictOf(f) == [k \in {x \in DOMAIN f : f[x] # Missing} |-> f[k]]

SchemaKeys(model_name, config_schema) ==
    {GetKey(model_name, config_schema[i].name) : i \in 1..Len(config_schema)}

NotCalled ==
    [called |-> FALSE, ret |-> NoneResult, errors |-> <<>>, visited |-> <<>>]

CallResult(r) ==
    [called |-> TRUE, ret |-> r.ret, errors |-> r.errors, visited |-> r.visited]

InitCoerce ==
    /\ cSchema \in Schemas
    /\ cState \in {DictOf(f) :
                     f \in [SchemaKeys(stt_model_name, cSchema) ->
                              RawValues \cup {Missing}]}
    /\ cResult = NotCalled
    /\ cRound = NotCalled

\* one call of _get_config_from_session_state(stt_model_name, cSchema, ...)
CoerceCall ==
    /\ ~cResult.called
    /\ cResult' = CallResult(GetConfigFromSessionState(cState, stt_model_name, cSchema))
    /\ UNCHANGED <<cSchema, cState, cRound>>
    /\ UNCHANGED sessionVars
    /\ UNCHANGED <<exported, registry, resourceVars, keyVars, youtubeVars>>

\* the returned config as st.session_state: every item under the key of its name
AsSessionState(model_name, model_config) ==
    [k \in {GetKey(model_name, model_config.items[i][1]) :
              i \in 1..Len(model_config.items)} |->
        LET i == CHOOSE j \in 1..Len(model_config.items) :
                    GetKey(model_name, model_config.items[j][1]) = k
        IN  model_config.items[i][2]]

\* a second call of _get_config_from_session_state, on the config the first
\* one returned
CoerceAgain ==
    /\ cResult.called
    /\ cResult.ret.isDict
    /\ ~cRound.called
    /\ cRound' = CallResult(GetConfigFromSessionState(
                     AsSessionState(stt_model_name, cResult.ret),
                     stt_model_name, cSchema))
    /\ UNCHANGED <<cSchema, cState, cResult>>
    /\ UNCHANGED sessionVars
    /\ UNCHANGED <<exported, registry, resourceVars, keyVars, youtubeVars>>

-----------------------------------------------------------------------------
(* Subtitle documents and the objects that hold them *)

Sessions == {"s1", "s2"}

Text(src, lang) == [src |-> src, lang |-> lang]

Entry(start, end, text) == [start |-> start, end |-> end, text |-> text]

DocA == <<Entry(0, 1, Text("a", "src"))>>

DocB == <<Entry(0, 1, Text("b", "src")), Entry(1, 3, Text("c", "src"))>>

\* what subs_ai.transcribe may produce for a media file
TranscriptionResults == {DocA, DocB}

K_transcribed_subs == <<"transcribed_subs">>

K_original_subs == <<"original_subs">>

K_file_path == <<"file_path">>

K_selected_row_idx == <<"selected_row_idx">>

\* the ids of the objects some session entry refers to
Referenced(ss) ==
    {ss[s][k].n : <<s, k>> \in {<<s2, k2>> \in Sessions \X UNION {DOMAIN ss[s3] : s3 \in Sessions} :
                                  k2 \in DOMAIN ss[s2] /\ ss[s2][k2].t = "ref"}}

\* reference counting: an object nothing refers to is freed
Collect(h, ss) == [o \in (DOMAIN h) \cap Referenced(ss) |-> h[o]]

\* the id a newly created object gets
NewId(h) ==
    CHOOSE o \in 1..(Cardinality(DOMAIN h) + 1) :
        o \notin DOMAIN h /\ \A p \in 1..(o - 1) : p \in DOMAIN h

EmptyHeap == [o \in {} |-> <<>>]

-----------------------------------------------------------------------------
(* @st.cache_data on _transcribe *)

\* mutant: model_config is left out of the key
CacheKey_IgnoresConfig(file_path, model_name, model_config) ==
    <<file_path, model_name, NoneResult>>

\* the key st.cache_data derives from the call's arguments: a hash that takes
\* in a dict's items in iteration order
CacheKey(file_path, model_name, model_config) ==
    <<file_path, model_name, model_config>>

\* the arguments up to Python equality (history): dicts are equal when they
\* hold the same items, whatever the order
ItemSet(items) == {items[i] : i \in 1..Len(items)}

ArgsOf(file_path, model_name, model_config) ==
    <<file_path, model_name,
      [isDict |-> model_config.isDict, items |-> ItemSet(model_config.items)]>>

\* mutant: no mutual exclusion between the computations of a key
LockFree_Always(key) == TRUE

\* the compute lock of a key can be taken
LockFree(key) == key \notin lock

\* a cache miss is looked up again once the compute lock is held
RecheckHit(key) == key \in DOMAIN cache

Count(d, k) == IF k \in DOMAIN d THEN d[k] ELSE 0

DocsOf(d, k) == IF k \in DOMAIN d THEN d[k] ELSE {}

IdleFrame == [file_path |-> PyNone, model_config |-> NoneResult]

FrameKey(f) == CacheKey(f.file_path, stt_model_name, f.model_config)

FrameArgs(f) == ArgsOf(f.file_path, stt_model_name, f.model_config)

TranscribeError == [msg |-> "exception in _transcribe", e |-> PyNone]

\* history of the one-step rollback: pre is the document that was current
\* immediately before the last successful translation; phase tells what the
\* session has done since ("translated": nothing, "kept": changed the current
\* document, "reloaded": reloaded the original, "stale": changed it after that)
NoRollback == [pre |-> <<>>, phase |-> "none"]

\* the current document was edited or replaced by a transcription
AfterChange(r) ==
    [r EXCEPT !.phase = IF @ = "translated" THEN "kept"
                        ELSE IF @ = "reloaded" THEN "stale" ELSE @]

\* mutant: a hit hands back the object an earlier call handed back
ResultObject_Shared(h, doc) ==
    IF \E o \in DOMAIN h : h[o] = doc
    THEN CHOOSE o \in DOMAIN h : h[o] = doc
    ELSE NewId(h)

\* what _transcribe hands back is an object of its own: the computed one on a
\* miss, one unpickled from the stored bytes on a hit
ResultObject(h, doc) == NewId(h)

\* mutant: a current document is kept when there is one
StoreTranscription_KeepsOld(ss, subs) ==
    IF K_transcribed_subs \in DOMAIN ss THEN ss ELSE Put(ss, K_transcribed_subs, subs)

\* line 307: st.session_state['transcribed_subs'] = subs
StoreTranscription(ss, subs) == Put(ss, K_transcribed_subs, subs)

\* lines 306-308 once _transcribe has returned the document doc: it is a new
\* object (the computed one on a miss, an unpickled copy on a hit)
FinishTranscribe(s, f, doc, notes) ==
    LET o == ResultObject(heap, doc)
        ss == [session_state EXCEPT ![s] = StoreTranscription(@, RefV(o))]
    IN  /\ session_state' = ss
        /\ heap' = Collect(Put(heap, o, doc), ss)
        /\ returned' = Put(returned, FrameArgs(f),
                           DocsOf(returned, FrameArgs(f)) \cup {doc})
        /\ notification' = [notification EXCEPT ![s] = notes]
        /\ rollback' = [rollback EXCEPT ![s] = AfterChange(@)]
        /\ parent' = [parent EXCEPT ![s] = PyNone]
        /\ pc' = [pc EXCEPT ![s] = "idle"]
        /\ frame' = [frame EXCEPT ![s] = IdleFrame]

\* how often the model may fail in one run of the process
MaxFailures == 1

\* the parameters of the speech-to-text model, SubsAI.config_schema(stt_model_name)
WhisperSchema ==
    <<[name |-> "beam_size", type |-> "int", options |-> <<>>, default |-> PyNone]>>

\* st.text_input: what the user may type (a numeral and a word)
TextInputs == {Seven, Giant}

\* the media file path typed into the 'Media file path' input
PathA == StrV(<<"A">>)


\* _config_ui: the widget of a parameter writes its value under the key
WidgetValues(param) ==
    IF param.type = "str" THEN TextInputs
    ELSE IF param.type = "list" THEN ItemSet(param.options)
    ELSE IF param.type \in {"float", "int"}
    THEN IF param.default = PyNone THEN TextInputs ELSE {IntV(7), FloatV(15)}
    ELSE IF param.type = "bool" THEN {BoolV(TRUE), BoolV(FALSE)}
    ELSE {}

\* the user sets the widget of one parameter; the script reruns with no button
ConfigWidget(s) ==
    /\ pc[s] = "idle"
    /\ \E i \in 1..Len(WhisperSchema) : \E v \in WidgetValues(WhisperSchema[i]) :
          session_state' = [session_state EXCEPT
              ![s] = Put(@, GetKey(stt_model_name, WhisperSchema[i].name), v)]
    /\ notification' = [notification EXCEPT ![s] = <<>>]
    /\ UNCHANGED <<heap, cache, lock, pc, frame, invoked, returned, failures, rollback, parent>>
    /\ UNCHANGED otherVars

\* the Transcribe button: lines 302-306 up to the cache lookup of _transcribe
TranscribeClick(s) ==
    /\ pc[s] = "idle"
    /\ LET r == GetConfigFromSessionState(session_state[s], stt_model_name,
                                          WhisperSchema)
           f == [file_path |-> session_state[s][K_file_path],
                 model_config |-> r.ret]
       IN  IF FrameKey(f) \in DOMAIN cache
           THEN /\ FinishTranscribe(s, f, cache[FrameKey(f)], r.errors)
                /\ UNCHANGED <<cache, lock, invoked, failures>>
           ELSE /\ pc' = [pc EXCEPT ![s] = "wait"]
                /\ frame' = [frame EXCEPT ![s] = f]
                /\ notification' = [notification EXCEPT ![s] = r.errors]
                /\ UNCHANGED <<session_state, heap, cache, lock, invoked, returned, failures, rollback, parent>>
    /\ UNCHANGED otherVars

\* after a miss: take the key's compute lock and look the key up again
AcquireLock(s) ==
    /\ pc[s] = "wait"
    /\ LockFree(FrameKey(frame[s]))
    /\ IF RecheckHit(FrameKey(frame[s]))
       THEN /\ FinishTranscribe(s, frame[s], cache[FrameKey(frame[s])],
                                notification[s])
            /\ UNCHANGED <<cache, lock, invoked, failures>>
       ELSE /\ lock' = lock \cup {FrameKey(frame[s])}
            /\ invoked' = Put(invoked, FrameArgs(frame[s]),
                              Count(invoked, FrameArgs(frame[s])) + 1)
            /\ pc' = [pc EXCEPT ![s] = "compute"]
            /\ UNCHANGED <<session_state, heap, cache, frame, notification, returned, failures, rollback, parent>>
    /\ UNCHANGED otherVars

\* the body of _transcribe returns a document: it is stored and handed back
ComputeOk(s) ==
    /\ pc[s] = "compute"
    /\ \E doc \in TranscriptionResults :
          /\ cache' = Put(cache, FrameKey(frame[s]), doc)
          /\ FinishTranscribe(s, frame[s], doc, notification[s])
    /\ lock' = lock \ {FrameKey(frame[s])}
    /\ UNCHANGED <<invoked, failures>>
    /\ UNCHANGED otherVars

\* mutant: a failed computation is remembered as an empty document
AfterRaise_StoresEmpty(store, key) == Put(store, key, <<>>)

\* the store after the body of _transcribe raised for key: nothing is written
AfterRaise(store, key) == store

\* create_model or transcribe raises: nothing is stored, the exception leaves
\* _transcribe and ends the script run
ComputeRaise(s) ==
    /\ pc[s] = "compute"
    /\ cache' = AfterRaise(cache, FrameKey(frame[s]))
    /\ failures < MaxFailures
    /\ failures' = failures + 1
    /\ lock' = lock \ {FrameKey(frame[s])}
    /\ notification' = [notification EXCEPT ![s] = Append(@, TranscribeError)]
    /\ pc' = [pc EXCEPT ![s] = "idle"]
    /\ frame' = [frame EXCEPT ![s] = IdleFrame]
    /\ UNCHANGED <<session_state, heap, invoked, returned, rollback, parent>>
    /\ UNCHANGED otherVars

-----------------------------------------------------------------------------
(* Post processing: translate, reload, edit *)

\* st.selectbox('Target language', options=("ja", "zh-CN", "en"))
TargetLanguages == {"ja", "zh-CN", "en"}

\* tools.google_translate: a new document with the same entries and timings,
\* every text replaced by its translation
TranslateDoc(doc, target_language) ==
    [i \in 1..Len(doc) |->
        Entry(doc[i].start, doc[i].end, Text(doc[i].text.src, target_language))]

\* mutant: the backup is taken after the translated document became current
StoreTranslation_BackupLast(ss, translated) ==
    Put(Put(ss, K_transcribed_subs, translated), K_original_subs, translated)

\* lines 329-330: keep the current document as the backup, then make the
\* translated one current
StoreTranslation(ss, translated) ==
    Put(Put(ss, K_original_subs, ss[K_transcribed_subs]),
        K_transcribed_subs, translated)

\* mutant: the current document and the backup change places
LoadOriginal_Swaps(ss) ==
    Put(Put(ss, K_transcribed_subs, ss[K_original_subs]),
        K_original_subs, ss[K_transcribed_subs])

\* line 338: the backup becomes the current document
LoadOriginal(ss) == Put(ss, K_transcribed_subs, ss[K_original_subs])

NoSubtitles == [msg |-> "No subtitles to translate", e |-> PyNone]

TranslateFailed == [msg |-> "dont find subtitles, google translator failed!", e |-> PyNone]

Success == [msg |-> "Success!", e |-> PyNone]

AlreadyLoaded == [msg |-> "Original subs are already loaded", e |-> PyNone]

ErrorParsingSubs == [msg |-> "Error parsing subs!", e |-> PyNone]

Note(s, m) == notification' = [notification EXCEPT ![s] = <<m>>]

\* the Translate button with no current document
TranslateNothing(s) ==
    /\ pc[s] = "idle"
    /\ K_transcribed_subs \notin DOMAIN session_state[s]
    /\ Note(s, NoSubtitles)
    /\ UNCHANGED <<session_state, heap, rollback, parent>>
    /\ UNCHANGED <<cache, lock, pc, frame, invoked, returned, failures>>
    /\ UNCHANGED otherVars

\* the Translate button, the translation returns
TranslateOk(s) ==
    /\ pc[s] = "idle"
    /\ K_transcribed_subs \in DOMAIN session_state[s]
    /\ \E target_language \in TargetLanguages :
          LET subs == session_state[s][K_transcribed_subs]
              o == NewId(heap)
              ss == [session_state EXCEPT ![s] = StoreTranslation(@, RefV(o))]
          IN  /\ session_state' = ss
              /\ heap' = Collect(Put(heap, o, TranslateDoc(heap[subs.n], target_language)), ss)
              /\ rollback' = [rollback EXCEPT
                                ![s] = [pre |-> heap[subs.n], phase |-> "translated"]]
              /\ parent' = [parent EXCEPT ![s] = subs]
    /\ Note(s, Success)
    /\ UNCHANGED <<cache, lock, pc, frame, invoked, returned, failures>>
    /\ UNCHANGED otherVars

\* mutant: the backup is written before the translation is attempted
OnTranslateError_BackupWritten(ss) ==
    Put(ss, K_original_subs, ss[K_transcribed_subs])

\* lines 326-330 when tools.google_translate raises: the two assignments after
\* the call are not reached
OnTranslateError(ss) == ss

\* the Translate button, the translation raises: the except branch reports it
TranslateRaise(s) ==
    /\ pc[s] = "idle"
    /\ K_transcribed_subs \in DOMAIN session_state[s]
    /\ LET ss == [session_state EXCEPT ![s] = OnTranslateError(@)]
       IN  /\ session_state' = ss
           /\ heap' = Collect(heap, ss)
    /\ Note(s, TranslateFailed)
    /\ UNCHANGED <<rollback, parent>>
    /\ UNCHANGED <<cache, lock, pc, frame, invoked, returned, failures>>
    /\ UNCHANGED otherVars

\* the 'Reload Original subtitles' button
Reload(s) ==
    /\ pc[s] = "idle"
    /\ IF K_original_subs \in DOMAIN session_state[s]
       THEN LET ss == [session_state EXCEPT ![s] = LoadOriginal(@)]
            IN  /\ session_state' = ss
                /\ heap' = Collect(heap, ss)
                /\ rollback' = [rollback EXCEPT
                                  ![s].phase = IF @ = "translated" \/ @ = "kept"
                                               THEN "reloaded" ELSE @]
                /\ parent' = [parent EXCEPT ![s] = PyNone]
                /\ notification' = [notification EXCEPT ![s] = <<>>]
       ELSE /\ Note(s, AlreadyLoaded)
            /\ UNCHANGED <<session_state, heap, rollback, parent>>
    /\ UNCHANGED <<cache, lock, pc, frame, invoked, returned, failures>>
    /\ UNCHANGED otherVars

\* the rows a user may have selected in the grid, and the text typed
RowIndexes == {0, 1}

EditTexts == {Text("x", "src")}

\* mutant: the edited entry also ends later
SetText_MovesEnd(doc, index, text) ==
    [doc EXCEPT ![index + 1].text = text, ![index + 1].end = @ + 1]

\* subs[changed_sub_index].text = changed_sub_text, on the object itself
SetText(doc, index, text) == [doc EXCEPT ![index + 1].text = text]

\* a row of the grid was edited: lines 381-393
Edit(s) ==
    /\ pc[s] = "idle"
    /\ \E index \in RowIndexes : \E text \in EditTexts :
          LET ss == Put(session_state[s], K_selected_row_idx, IntV(index))
          IN  IF /\ K_transcribed_subs \in DOMAIN ss
                 /\ index < Len(heap[ss[K_transcribed_subs].n])
              THEN /\ session_state' = [session_state EXCEPT ![s] = ss]
                   /\ heap' = [heap EXCEPT ![ss[K_transcribed_subs].n] =
                                              SetText(@, index, text)]
                   /\ rollback' = [rollback EXCEPT ![s] = AfterChange(@)]
                   /\ parent' = parent
                   /\ notification' = [notification EXCEPT ![s] = <<>>]
              ELSE /\ session_state' = [session_state EXCEPT ![s] = ss]
                   /\ Note(s, ErrorParsingSubs)
                   /\ UNCHANGED <<heap, rollback, parent>>
    /\ UNCHANGED <<cache, lock, pc, frame, invoked, returned, failures>>
    /\ UNCHANGED otherVars

-----------------------------------------------------------------------------
(* Export subtitles file *)

\* available_subs_formats(): the format tags the Format radio offers
ExportFormats == {".srt", ".vtt", ".ass", ".sub"}

\* st.number_input('Framerate'): 0.0 as first shown, or a rate the user enters
FramerateInputs == {FloatV(0), FloatV(250)}

NoExport == [called |-> FALSE, format |-> "", fps |-> PyNone]

\* mutant: the number input's value is passed whatever the format
FpsFor_Always(export_format, framerate) == framerate

\* lines 437-441: the fps handed to subs.save
FpsFor(export_format, framerate) ==
    IF export_format = ".sub" THEN framerate ELSE PyNone

\* SSAFile.save: the frame-indexed format needs a positive frame rate; the
\* document is read, not written
WriterAccepts(export_format, fps) ==
    export_format = ".sub" => (fps.t = "float" /\ fps.n > 0)

ExportedFile == [msg |-> "Exported file to", e |-> PyNone]

ForgotTranscription ==
    [msg |-> "Maybe you forgot to run the transcription!", e |-> PyNone]

SeeTerminal == [msg |-> "See the terminal for more info!", e |-> PyNone]

\* the Export button: lines 443-457. Reading st.session_state['transcribed_subs']
\* raises KeyError when there is no document; subs.save raises when the writer
\* rejects its options or the file cannot be written.
Export(s) ==
    /\ pc[s] = "idle"
    /\ \E export_format \in ExportFormats : \E framerate \in FramerateInputs :
          LET fps == FpsFor(export_format, framerate)
          IN  IF K_transcribed_subs \notin DOMAIN session_state[s]
              THEN /\ exported' = exported
                   /\ notification' = [notification EXCEPT
                                         ![s] = <<ForgotTranscription, SeeTerminal>>]
              ELSE /\ exported' = [exported EXCEPT
                                     ![s] = [called |-> TRUE,
                                             format |-> export_format,
                                             fps |-> fps]]
                   /\ \E written \in {WriterAccepts(export_format, fps), FALSE} :
                         notification' = [notification EXCEPT
                             ![s] = IF written THEN <<ExportedFile>>
                                    ELSE <<ForgotTranscription, SeeTerminal>>]
    /\ UNCHANGED <<session_state, heap, cache, lock, pc, frame, invoked, returned, failures, rollback, parent>>
    /\ UNCHANGED <<registry, coerceVars, cRound, resourceVars, keyVars, youtubeVars>>

-----------------------------------------------------------------------------
(* AVAILABLE_MODELS (configs.py) *)

RegistryEntry(name, class, description, url) ==
    [name |-> name, class |-> class, description |-> description, url |-> url,
     config_schema |-> <<class, "config_schema">>]

\* the dict literal, one entry per key in the order written; a description is
\* cut to its first words
AVAILABLE_MODELS ==
    << RegistryEntry("openai/whisper", "WhisperModel",
                     "Whisper is a general-purpose speech recognition model.",
                     "https://github.com/openai/whisper"),
       RegistryEntry("linto-ai/whisper-timestamped", "WhisperTimeStamped",
                     "Multilingual Automatic Speech Recognition with word-level timestamps and confidence.",
                     "https://github.com/linto-ai/whisper-timestamped"),
       RegistryEntry("ggerganov/whisper.cpp", "WhisperCppModel",
                     "High-performance inference of OpenAI's Whisper automatic speech recognition (ASR) model",
                     "https://github.com/ggerganov/whisper.cpp"),
       RegistryEntry("guillaumekln/faster-whisper", "FasterWhisperModel",
                     "**faster-whisper** is a reimplementation of OpenAI's Whisper model",
                     "https://github.com/guillaumekln/faster-whisper"),
       RegistryEntry("m-bain/whisperX", "WhisperXModel",
                     "**whisperX** is a fast automatic speech recognition",
                     "https://github.com/m-bain/whisperX"),
       RegistryEntry("jianfch/stable-ts", "StableTsModel",
                     "**Stabilizing Timestamps for Whisper**",
                     "https://github.com/jianfch/stable-ts"),
       RegistryEntry("API/openai/whisper", "WhisperAPIModel",
                     "API for the OpenAI large-v2 Whisper model, requires an API key.",
                     "https://platform.openai.com/docs/guides/speech-to-text"),
       RegistryEntry("HuggingFace", "HuggingFaceModel",
                     "Hugging Face implementation of Whisper.",
                     "https://huggingface.co/tasks/automatic-speech-recognition") >>

\* the identifiers in code point order, as sorted() gives them
SortedModelNames ==
    << "API/openai/whisper", "HuggingFace", "ggerganov/whisper.cpp",
       "guillaumekln/faster-whisper", "jianfch/stable-ts",
       "linto-ai/whisper-timestamped", "m-bain/whisperX", "openai/whisper" >>

\* mutant: the identifiers are enumerated sorted
ModelNames_Sorted(models) == SortedModelNames

\* list(AVAILABLE_MODELS): a dict enumerates its keys in insertion order
ModelNames(models) == [i \in 1..Len(models) |-> models[i].name]

-----------------------------------------------------------------------------
(* @st.cache_resource on _create_translation_model *)

\* the model_name arguments the callers pass
TranslationModels ==
    {"facebook/m2m100_418M", "facebook/m2m100_1.2B",
     "facebook/mbart-large-50-many-to-many-mmt"}

\* a script thread that is not inside _create_translation_model
Outside == [at |-> "outside", model_name |-> ""]

\* the key st.cache_resource derives from the call's one argument
ResourceKey(model_name) == model_name

\* the compute lock of a key can be taken
ResourceLockFree(key) == key \notin tmLock

\* mutant: the constructed backend is handed back but not kept
StoreResource_Forgets(store, key, instance) == store

\* the store keeps the object itself under the key
StoreResource(store, key, instance) == Put(store, key, instance)

\* _create_translation_model returns instance for model_name
HandBack(s, model_name, instance) ==
    /\ tmGot' = Put(tmGot, model_name, DocsOf(tmGot, model_name) \cup {instance})
    /\ tmPc' = [tmPc EXCEPT ![s] = Outside]

\* a call of _create_translation_model(model_name): the lookup of the key
ModelCall(s) ==
    /\ tmPc[s] = Outside
    /\ \E model_name \in TranslationModels :
          IF ResourceKey(model_name) \in DOMAIN tmStore
          THEN HandBack(s, model_name, tmStore[ResourceKey(model_name)])
          ELSE /\ tmPc' = [tmPc EXCEPT
                             ![s] = [at |-> "wait", model_name |-> model_name]]
               /\ tmGot' = tmGot
    /\ UNCHANGED <<tmStore, tmLock, tmBuilt, tmRaised>>
    /\ UNCHANGED <<sessionVars, exported, registry, coerceVars, cRound, keyVars, youtubeVars>>

\* after a miss: take the key's compute lock and look the key up again
ModelAcquire(s) ==
    /\ tmPc[s].at = "wait"
    /\ ResourceLockFree(ResourceKey(tmPc[s].model_name))
    /\ IF ResourceKey(tmPc[s].model_name) \in DOMAIN tmStore
       THEN /\ HandBack(s, tmPc[s].model_name,
                        tmStore[ResourceKey(tmPc[s].model_name)])
            /\ tmLock' = tmLock
       ELSE /\ tmLock' = tmLock \cup {ResourceKey(tmPc[s].model_name)}
            /\ tmPc' = [tmPc EXCEPT ![s].at = "build"]
            /\ tmGot' = tmGot
    /\ UNCHANGED <<tmStore, tmBuilt, tmRaised>>
    /\ UNCHANGED <<sessionVars, exported, registry, coerceVars, cRound, keyVars, youtubeVars>>

\* line 175 returns: tools.create_translation_model built a backend, a new object
ModelBuilt(s) ==
    /\ tmPc[s].at = "build"
    /\ LET model_name == tmPc[s].model_name
           instance == <<model_name, Count(tmBuilt, model_name) + 1>>
       IN  /\ tmBuilt' = Put(tmBuilt, model_name, Count(tmBuilt, model_name) + 1)
           /\ tmStore' = StoreResource(tmStore, ResourceKey(model_name), instance)
           /\ tmLock' = tmLock \ {ResourceKey(model_name)}
           /\ HandBack(s, model_name, instance)
    /\ UNCHANGED tmRaised
    /\ UNCHANGED <<sessionVars, exported, registry, coerceVars, cRound, keyVars, youtubeVars>>

\* line 175 raises: nothing is stored and the exception leaves the function
ModelRaise(s) ==
    /\ tmPc[s].at = "build"
    /\ tmRaised < MaxFailures
    /\ tmRaised' = tmRaised + 1
    /\ tmLock' = tmLock \ {ResourceKey(tmPc[s].model_name)}
    /\ tmPc' = [tmPc EXCEPT ![s] = Outside]
    /\ UNCHANGED <<tmStore, tmBuilt, tmGot>>
    /\ UNCHANGED <<sessionVars, exported, registry, coerceVars, cRound, keyVars, youtubeVars>>

-----------------------------------------------------------------------------
(* _transcribe called with any model_config dict *)

KeyValues == {IntV(7), PyNone}

\* the dicts over the first two parameter names, every insertion order
KeyConfigs ==
    {DictResult(<<>>)}
    \cup {DictResult(<<<<ParamNames[i], v>>>>) : i \in {1, 2}, v \in KeyValues}
    \cup {DictResult(<<<<ParamNames[i], v>>, <<ParamNames[3 - i], w>>>>) :
            i \in {1, 2}, v \in KeyValues, w \in KeyValues}

\* how many direct calls a run makes
KeyCalls == 2

InitKey == kArgs \in [1..KeyCalls -> KeyConfigs] /\ kDone = 0

\* _transcribe(PathA, stt_model_name, kArgs[kDone + 1]) from start to return, by
\* one thread: a hit hands back the stored document, a miss invokes the model
\* and stores what it produced
DirectCall ==
    /\ kDone < Len(kArgs)
    /\ LET f == [file_path |-> PathA, model_config |-> kArgs[kDone + 1]]
       IN  IF FrameKey(f) \in DOMAIN cache
           THEN /\ returned' = Put(returned, FrameArgs(f),
                                   DocsOf(returned, FrameArgs(f)) \cup {cache[FrameKey(f)]})
                /\ UNCHANGED <<cache, invoked>>
           ELSE \E doc \in TranscriptionResults :
                   /\ cache' = Put(cache, FrameKey(f), doc)
                   /\ invoked' = Put(invoked, FrameArgs(f),
                                     Count(invoked, FrameArgs(f)) + 1)
                   /\ returned' = Put(returned, FrameArgs(f),
                                      DocsOf(returned, FrameArgs(f)) \cup {doc})
    /\ kDone' = kDone + 1
    /\ UNCHANGED kArgs
    /\ UNCHANGED <<session_state, heap, lock, pc, frame, notification, failures, rollback, parent>>
    /\ UNCHANGED <<exported, registry, coerceVars, cRound, resourceVars, youtubeVars>>

-----------------------------------------------------------------------------
(* Media file, file mode 'Youtube': lines 287-296 *)

VideoA == "https://youtu.be/a"

VideoB == "https://youtu.be/b"

\* what the user may have typed into the 'video url' input: nothing, the address
\* of a video, or any other text
UrlInputs == {"", VideoA, VideoB, "file_path", "transcribed_subs"}

\* st.session_state[yt_url]: the typed text is the key
UrlKey(yt_url) == <<yt_url>>

\* download_youtube_video can fetch the addresses of videos
Downloadable(yt_url) == yt_url \in {VideoA, VideoB}

\* the path of the file download_youtube_video wrote for yt_url
DownloadPath(yt_url) == StrV(<<yt_url, ".", "m", "p", "4">>)

\* a script run in file mode 'Youtube' with yt_url in the input, no button
\* pressed. When download_youtube_video raises, the exception ends the run
\* before line 293.
YoutubeRerun(s) ==
    /\ pc[s] = "idle"
    /\ \E yt_url \in UrlInputs :
          /\ ytUrl' = [ytUrl EXCEPT ![s] = yt_url]
          /\ IF yt_url # "" /\ UrlKey(yt_url) \notin DOMAIN session_state[s]
             THEN \E fetched \in {Downloadable(yt_url), FALSE} :
                     IF fetched
                     THEN /\ session_state' = [session_state EXCEPT
                                ![s] = Put(Put(@, UrlKey(yt_url), DownloadPath(yt_url)),
                                           K_file_path, DownloadPath(yt_url))]
                          /\ downloaded' = [downloaded EXCEPT
                                ![s] = Put(@, yt_url, Count(@, yt_url) + 1)]
                     ELSE UNCHANGED <<session_state, downloaded>>
             ELSE /\ session_state' = [session_state EXCEPT
                        ![s] = Put(@, K_file_path,
                                   IF UrlKey(yt_url) \in DOMAIN @
                                   THEN @[UrlKey(yt_url)] ELSE EmptyStr)]
                  /\ UNCHANGED downloaded
    /\ notification' = [notification EXCEPT ![s] = <<>>]
    /\ UNCHANGED <<heap, cache, lock, pc, frame, invoked, returned, failures, rollback, parent>>
    /\ UNCHANGED <<exported, registry, coerceVars, cRound, resourceVars, keyVars>>

\* every session has run the script with the media file path entered and has
\* no subtitles yet; nothing is cached
InitSessions ==
    /\ session_state = [s \in Sessions |-> Put(EmptyDict, K_file_path, PathA)]
    /\ heap = EmptyHeap
    /\ cache = [k \in {} |-> <<>>]
    /\ lock = {}
    /\ pc = [s \in Sessions |-> "idle"]
    /\ frame = [s \in Sessions |-> IdleFrame]
    /\ notification = [s \in Sessions |-> <<>>]
    /\ invoked = [k \in {} |-> 0]
    /\ returned = [k \in {} |-> {}]
    /\ failures = 0
    /\ rollback = [s \in Sessions |-> NoRollback]
    /\ parent = [s \in Sessions |-> PyNone]
    /\ exported = [s \in Sessions |-> NoExport]
    /\ registry = AVAILABLE_MODELS
    /\ ytUrl = [s \in Sessions |-> ""]
    /\ downloaded = [s \in Sessions |-> [u \in {} |-> 0]]

\* no translation model has been asked for
InitResource ==
    /\ tmStore = [k \in {} |-> 0]
    /\ tmLock = {}
    /\ tmPc = [s \in Sessions |-> Outside]
    /\ tmBuilt = [k \in {} |-> 0]
    /\ tmGot = [k \in {} |-> {}]
    /\ tmRaised = 0

\* no direct call of _transcribe is under way
NoKeyCalls ==
    /\ kArgs = <<>>
    /\ kDone = 0

Init ==
    /\ InitSessions
    /\ InitResource
    /\ NoKeyCalls
    /\ cSchema = WhisperSchema
    /\ cState = EmptyDict
    /\ cResult = NotCalled
    /\ cRound = NotCalled

\* the transcription cache: the sessions set config widgets and transcribe,
\* their script threads interleaving inside _transcribe
Next ==
    \E s \in Sessions :
        \/ ConfigWidget(s)
        \/ TranscribeClick(s)
        \/ AcquireLock(s)
        \/ ComputeOk(s)
        \/ ComputeRaise(s)

Spec == Init /\ [][Next]_vars

\* the sessions whose documents the document specification follows
DocSessions == {"s1"}

\* the documents of a session: transcribe, translate, reload and edit, with no
\* config entered
NextDoc ==
    \E s \in DocSessions :
        \/ TranscribeClick(s)
        \/ AcquireLock(s)
        \/ ComputeOk(s)
        \/ ComputeRaise(s)
        \/ TranslateNothing(s)
        \/ TranslateOk(s)
        \/ TranslateRaise(s)
        \/ Reload(s)
        \/ Edit(s)

SpecDoc == Init /\ [][NextDoc]_vars

\* the session transcribes, translates, edits and exports, no call failing
NextExport ==
    \E s \in DocSessions :
        \/ TranscribeClick(s)
        \/ AcquireLock(s)
        \/ ComputeOk(s)
        \/ TranslateOk(s)
        \/ Edit(s)
        \/ Export(s)

SpecExport == Init /\ [][NextExport]_vars

\* the sessions transcribe the same file while one of them edits, translates
\* and reloads its document
NextShare ==
    \/ \E s \in Sessions :
          \/ TranscribeClick(s)
          \/ AcquireLock(s)
          \/ ComputeOk(s)
    \/ \E s \in DocSessions :
          \/ Edit(s)
          \/ TranslateOk(s)
          \/ Reload(s)

SpecShare == Init /\ [][NextShare]_vars

\* the script threads of the sessions call _create_translation_model
NextResource ==
    \E s \in Sessions :
        \/ ModelCall(s)
        \/ ModelAcquire(s)
        \/ ModelBuilt(s)
        \/ ModelRaise(s)

SpecResource == Init /\ [][NextResource]_vars

\* _transcribe called directly with every pair of dicts
InitK ==
    /\ InitSessions
    /\ InitResource
    /\ InitKey
    /\ cSchema = WhisperSchema
    /\ cState = EmptyDict
    /\ cResult = NotCalled
    /\ cRound = NotCalled

NextKey == DirectCall

SpecKey == InitK /\ [][NextKey]_vars

\* the sessions rerun the script in file mode 'Youtube' after a local path
\* was entered
NextYoutube == \E s \in Sessions : YoutubeRerun(s)

SpecYoutube == Init /\ [][NextYoutube]_vars

InitC == InitSessions /\ InitResource /\ NoKeyCalls /\ InitCoerce

NextC == CoerceCall \/ CoerceAgain

SpecCoerce == InitC /\ [][NextC]_vars

-----------------------------------------------------------------------------
(* The transcription cache: C1 - C4, under Spec *)

ConfigKey == GetKey(stt_model_name, WhisperSchema[1].name)

HasDoc(s) == K_transcribed_subs \in DOMAIN session_state[s]

CurrentDoc(s) == heap[session_state[s][K_transcribed_subs].n]

HasParseError(notes) ==
    \E i \in 1..Len(notes) : notes[i].msg = "Problem parsing configs!!"

\* C1: as long as no invocation has raised, every argument triple for which
\* _transcribe has returned had the model invoked exactly once, and all the
\* calls with that triple returned the same document; triples are told apart
\* by their model_config.
C1_OncePerTriple ==
    \A a \in DOMAIN returned :
        /\ Cardinality(returned[a]) = 1
        /\ Count(invoked, a) >= 1
        /\ failures = 0 => Count(invoked, a) = 1

\* both sessions called with the equal triple (no config entered) and hold
\* equal documents after a single invocation of the model
C1_Witness ==
    /\ failures = 0
    /\ \A s \in Sessions :
          /\ pc[s] = "idle"
          /\ HasDoc(s)
          /\ ConfigKey \notin DOMAIN session_state[s]
    /\ CurrentDoc("s1") = CurrentDoc("s2")
    /\ session_state["s1"][K_transcribed_subs] # session_state["s2"][K_transcribed_subs]
    /\ \A a \in DOMAIN returned : Count(invoked, a) = 1

\* C2: over every interleaving of the sessions, at most one computation per key
\* is in flight, the model is invoked for a key only once unless an invocation
\* raised, and the callers of one key never hold differently computed documents.
C2_AtMostOneComputation ==
    /\ \A s1 \in Sessions : \A s2 \in Sessions \ {s1} :
          ~(/\ pc[s1] = "compute"
            /\ pc[s2] = "compute"
            /\ FrameKey(frame[s1]) = FrameKey(frame[s2]))
    /\ \A a \in DOMAIN invoked : invoked[a] <= failures + 1
    /\ \A s1 \in Sessions : \A s2 \in Sessions :
          (/\ pc[s1] = "idle" /\ pc[s2] = "idle"
           /\ HasDoc(s1) /\ HasDoc(s2)
           /\ ConfigKey \notin DOMAIN session_state[s1]
           /\ ConfigKey \notin DOMAIN session_state[s2])
          => CurrentDoc(s1) = CurrentDoc(s2)

\* one session computes while the other, called with the same key, waits
C2_Witness ==
    /\ pc["s1"] = "compute"
    /\ pc["s2"] = "wait"
    /\ FrameKey(frame["s1"]) = FrameKey(frame["s2"])

\* C3: the step in which the model raises stores nothing under the key, leaves
\* the session as it was and shows the exception; and a call that finds no entry
\* for its key invokes the model (again).
C3_FailureNotCached ==
    [][\A s \in Sessions :
          /\ (pc[s] = "compute" /\ pc'[s] = "idle" /\ failures' = failures + 1)
             => /\ cache' = cache
                /\ FrameKey(frame[s]) \notin DOMAIN cache'
                /\ session_state'[s] = session_state[s]
                /\ notification'[s][Len(notification'[s])] = TranscribeError
                /\ invoked' = invoked
          /\ (pc[s] = "wait" /\ pc'[s] # "wait"
                /\ FrameKey(frame[s]) \notin DOMAIN cache)
             => Count(invoked', FrameArgs(frame[s]))
                  = Count(invoked, FrameArgs(frame[s])) + 1]_vars

\* an invocation raised and a later call with the key invoked the model again
C3_Witness ==
    /\ failures = 1
    /\ \E a \in DOMAIN returned : Count(invoked, a) = 2

\* C4: once a parse error is reported the Transcribe handler stops: the session
\* is not inside _transcribe, no model was invoked with the failed config and
\* nothing is cached under it.
C4_AbortOnParseError ==
    /\ \A s \in Sessions : HasParseError(notification[s]) => pc[s] = "idle"
    /\ \A a \in DOMAIN invoked : a[3].isDict
    /\ \A k \in DOMAIN cache : k[3].isDict

-----------------------------------------------------------------------------
(* The coercer: C5 - C9, under SpecCoerce *)

Present(i) == GetKey(stt_model_name, cSchema[i].name) \in DOMAIN cState

RawOf(i) == cState[GetKey(stt_model_name, cSchema[i].name)]

Params == 1..Len(cSchema)

\* the raw values int() and float() reject, written out
Unparsable(type, v) ==
    \/ type = "int" /\ v \in {OnePointFive, Base, Giant, PyNone}
    \/ type = "float" /\ v \in {Base, Giant, PyNone}

Malformed(i) == Present(i) /\ Unparsable(cSchema[i].type, RawOf(i))

ItemNames(items) == [i \in 1..Len(items) |-> items[i][1]]

RECURSIVE PresentNames(_)
PresentNames(i) ==
    IF i > Len(cSchema) THEN <<>>
    ELSE IF Present(i) THEN <<cSchema[i].name>> \o PresentNames(i + 1)
    ELSE PresentNames(i + 1)

\* C5: the call hands back either a dict with one item for every parameter that
\* has a raw value, or, when some raw value does not coerce, None and no items;
\* never the parameters processed before the failure.
C5_AllOrNothing ==
    cResult.called =>
        IF \E i \in Params : Malformed(i)
        THEN ~cResult.ret.isDict /\ cResult.ret.items = <<>>
        ELSE cResult.ret.isDict /\ ItemNames(cResult.ret.items) = PresentNames(1)

\* a well-formed parameter was processed before the one that failed
C5_Witness ==
    /\ cResult.called
    /\ Len(cSchema) = 2
    /\ Present(1) /\ ~Malformed(1) /\ Malformed(2)
    /\ cResult.ret = NoneResult
    /\ cResult.visited = <<"p1", "p2">>

\* C6 as stated: a parameter with no raw value is in the returned config with
\* the schema's default.
C6_AbsentGetsDefault ==
    (cResult.called /\ cResult.ret.isDict) =>
        \A i \in Params :
            ~Present(i) => <<cSchema[i].name, cSchema[i].default>>
                              \in ItemSet(cResult.ret.items)

\* C6 amended: a parameter with no raw value has no item in the returned config;
\* with no raw value at all the config is the empty dict.
C6_AbsentOmitted ==
    (cResult.called /\ cResult.ret.isDict) =>
        /\ \A i \in Params :
              ~Present(i) => \A j \in 1..Len(cResult.ret.items) :
                                cResult.ret.items[j][1] # cSchema[i].name
        /\ cState = EmptyDict => cResult.ret.items = <<>>

\* one parameter has a raw value and the other has none
C6_Witness ==
    /\ cResult.called
    /\ cResult.ret.isDict
    /\ Len(cSchema) = 2
    /\ ~Present(1) /\ Present(2)
    /\ Len(cResult.ret.items) = 1

\* C7: a raw value outside the options of an enumerated-choice parameter makes
\* the call fail.
C7_OptionsEnforced ==
    cResult.called =>
        \A i \in Params :
            (/\ cSchema[i].type = "list"
             /\ Present(i)
             /\ RawOf(i) \notin ItemSet(cSchema[i].options))
            => ~cResult.ret.isDict

\* the value each raw value coerces to, written out
Expected(type, v) ==
    IF type \in {"str", "int", "float"} /\ v \in {EmptyStr, NoneStr} THEN PyNone
    ELSE IF type = "int"
    THEN CASE v = Seven -> IntV(7)
           [] v = IntV(7) -> IntV(7)
           [] v = FloatV(15) -> IntV(1)
           [] v = BoolV(TRUE) -> IntV(1)
    ELSE IF type = "float"
    THEN CASE v = Seven -> FloatV(70)
           [] v = OnePointFive -> FloatV(15)
           [] v = IntV(7) -> FloatV(70)
           [] v = FloatV(15) -> FloatV(15)
           [] v = BoolV(TRUE) -> FloatV(10)
    ELSE v

\* C8: '' and 'None' become null for text, integer and real parameters; other
\* integer and real values become the number they denote, and one that denotes
\* none fails the call; other text and every boolean value is kept as it is.
C8_PerTypeRule ==
    cResult.called =>
        /\ cResult.ret.isDict <=>
              \A i \in Params :
                  ~(Present(i) /\ Unparsable(cSchema[i].type, RawOf(i)))
        /\ cResult.ret.isDict =>
              \A i \in Params :
                  (Present(i) /\ cSchema[i].type # "list")
                  => <<cSchema[i].name, Expected(cSchema[i].type, RawOf(i))>>
                        \in ItemSet(cResult.ret.items)

\* an integer parsed from text beside a text 'None' made null
C8_Witness ==
    /\ cResult.called
    /\ Len(cSchema) = 2
    /\ cSchema[1].type = "int" /\ Present(1) /\ RawOf(1) = Seven
    /\ cSchema[2].type = "str" /\ Present(2) /\ RawOf(2) = NoneStr
    /\ cResult.ret = DictResult(<<<<"p1", IntV(7)>>, <<"p2", PyNone>>>>)

FirstMalformed ==
    CHOOSE i \in Params : Malformed(i) /\ \A j \in 1..(i - 1) : ~Malformed(j)

\* C9: when raw values are malformed, the one error reported is that of the
\* first malformed parameter in schema order and the parameters after it are
\* not looked up; otherwise every parameter is looked up, in schema order.
C9_SchemaOrder ==
    cResult.called =>
        IF \E i \in Params : Malformed(i)
        THEN /\ cResult.errors = <<ParseError(RawOf(FirstMalformed))>>
             /\ cResult.visited = [i \in 1..FirstMalformed |-> cSchema[i].name]
        ELSE /\ cResult.errors = <<>>
             /\ cResult.visited = [i \in Params |-> cSchema[i].name]

\* two malformed raw values: the first one is reported, the second not reached
C9_Witness ==
    /\ cResult.called
    /\ Len(cSchema) = 2
    /\ Malformed(1) /\ Malformed(2)
    /\ RawOf(1) # RawOf(2)
    /\ cResult.errors = <<ParseError(RawOf(1))>>
    /\ cResult.visited = <<"p1">>

-----------------------------------------------------------------------------
(* The session's documents: C10, under SpecDoc *)

OriginalDoc(s) == heap[session_state[s][K_original_subs].n]

\* t has the entries and timings of d, its texts translated to one language
IsTranslationOf(t, d) ==
    /\ Len(t) = Len(d)
    /\ \E target_language \in TargetLanguages :
          \A i \in 1..Len(d) :
              /\ t[i].start = d[i].start
              /\ t[i].end = d[i].end
              /\ t[i].text = Text(d[i].text.src, target_language)

\* C10: right after a translation the backup is the document that was current
\* before it and the current document is its translation; the backup stays that
\* document until the original is reloaded, and the reload makes the current
\* document equal to it. The backup is always that of the last translation.
C10_OneStepRollback ==
    \A s \in Sessions :
        LET r == rollback[s]
        IN  /\ r.phase # "none" =>
                  /\ K_original_subs \in DOMAIN session_state[s]
                  /\ HasDoc(s)
            /\ r.phase \in {"translated", "kept", "reloaded"} =>
                  OriginalDoc(s) = r.pre
            /\ r.phase = "translated" =>
                  /\ IsTranslationOf(CurrentDoc(s), r.pre)
                  /\ session_state[s][K_transcribed_subs]
                        # session_state[s][K_original_subs]
            /\ r.phase = "reloaded" => CurrentDoc(s) = r.pre

\* reloaded after two translations in a row: the current document is the first
\* translation, not the transcription
C10_Witness ==
    /\ rollback["s1"].phase = "reloaded"
    /\ Len(rollback["s1"].pre) = 2
    /\ rollback["s1"].pre[1].text.lang # "src"
    /\ CurrentDoc("s1") = rollback["s1"].pre

\* the current document and the messages of s after the step
CurrentDocNext(s) == heap'[session_state'[s][K_transcribed_subs].n]

\* C11: an edit at an index inside the current document leaves the object, the
\* number of entries and every start and end time as they were, gives the entry
\* at the index the typed text and keeps the text of every other entry; an edit
\* with no current document or at an index past its end reports an error and
\* leaves every document as it was.
C11_EditOnlyText ==
    [][\A s \in Sessions :
          Edit(s) =>
              LET index == session_state'[s][K_selected_row_idx].n
              IN  IF HasDoc(s) /\ index < Len(CurrentDoc(s))
                  THEN /\ session_state'[s][K_transcribed_subs]
                             = session_state[s][K_transcribed_subs]
                       /\ Len(CurrentDocNext(s)) = Len(CurrentDoc(s))
                       /\ \A i \in 1..Len(CurrentDoc(s)) :
                             /\ CurrentDocNext(s)[i].start = CurrentDoc(s)[i].start
                             /\ CurrentDocNext(s)[i].end = CurrentDoc(s)[i].end
                             /\ IF i = index + 1
                                THEN CurrentDocNext(s)[i].text \in EditTexts
                                ELSE CurrentDocNext(s)[i].text = CurrentDoc(s)[i].text
                  ELSE /\ heap' = heap
                       /\ \A k \in {K_transcribed_subs, K_original_subs} :
                             /\ (k \in DOMAIN session_state'[s])
                                   = (k \in DOMAIN session_state[s])
                             /\ k \in DOMAIN session_state[s]
                                   => session_state'[s][k] = session_state[s][k]
                       /\ notification'[s] = <<ErrorParsingSubs>>]_vars

\* the second row of a two-entry document was edited: its text is the typed one,
\* the first row and all times are those of the transcription
C11_Witness ==
    /\ HasDoc("s1")
    /\ K_selected_row_idx \in DOMAIN session_state["s1"]
    /\ session_state["s1"][K_selected_row_idx] = IntV(1)
    /\ notification["s1"] = <<>>
    /\ CurrentDoc("s1") = <<Entry(0, 1, Text("b", "src")), Entry(1, 3, Text("x", "src"))>>

-----------------------------------------------------------------------------
(* Export: C12 and the registry: C17, under SpecExport *)

C17_RegistryStatic ==
    /\ registry = AVAILABLE_MODELS
    /\ \A i \in 1..Len(registry) :
          {"class", "description", "url", "config_schema"} \subseteq DOMAIN registry[i]
    /\ ModelNames(registry) =
          << "openai/whisper", "linto-ai/whisper-timestamped",
             "ggerganov/whisper.cpp", "guillaumekln/faster-whisper",
             "m-bain/whisperX", "jianfch/stable-ts", "API/openai/whisper",
             "HuggingFace" >>
    /\ ModelNames(registry) # SortedModelNames
    /\ \A i \in 1..Len(registry) : \A j \in 1..Len(registry) :
          i # j => ModelNames(registry)[i] # ModelNames(registry)[j]

\* the session has transcribed (with its config coerced), translated, edited
\* and exported
C17_Witness ==
    /\ registry = AVAILABLE_MODELS
    /\ HasDoc("s1")
    /\ rollback["s1"].phase = "kept"
    /\ K_selected_row_idx \in DOMAIN session_state["s1"]
    /\ exported["s1"].called

-----------------------------------------------------------------------------
(* The session's documents: C13, C18, C20, under SpecDoc *)

\* C13: the step in which the translation raises leaves both entries of the
\* session and every document as they were: no backup is written and the
\* current document is not replaced.
C13_FailedTranslationNoChange ==
    [][\A s \in Sessions :
          TranslateRaise(s) =>
              /\ session_state'[s] = session_state[s]
              /\ heap' = heap
              /\ rollback' = rollback
              /\ notification'[s] = <<TranslateFailed>>]_vars

\* the first translation of a document failed: there is still no backup
C13_Witness ==
    /\ notification["s1"] = <<TranslateFailed>>
    /\ HasDoc("s1")
    /\ K_original_subs \notin DOMAIN session_state["s1"]
    /\ CurrentDoc("s1") \in TranscriptionResults

\* the key of the call the Transcribe handler of s makes
ClickKey(s) ==
    CacheKey(session_state[s][K_file_path], stt_model_name,
             GetConfigFromSessionState(session_state[s], stt_model_name,
                                       WhisperSchema).ret)

\* C18: a Transcribe that returns makes the current document the transcription
\* result, entry for entry, in an object that was neither the current document
\* nor the backup; a Transcribe whose model invocation raises leaves the
\* session's entries and documents as they were.
C18_TranscribeReplaces ==
    [][\A s \in Sessions :
          /\ ((TranscribeClick(s) \/ AcquireLock(s) \/ ComputeOk(s)) /\ pc'[s] = "idle")
             => /\ CurrentDocNext(s)
                     = cache'[IF pc[s] = "idle" THEN ClickKey(s) ELSE FrameKey(frame[s])]
                /\ CurrentDocNext(s) \in TranscriptionResults
                /\ \A k \in {K_transcribed_subs, K_original_subs} :
                      k \in DOMAIN session_state[s]
                         => session_state'[s][K_transcribed_subs] # session_state[s][k]
          /\ ComputeRaise(s)
             => /\ session_state'[s] = session_state[s]
                /\ heap' = heap]_vars

\* a transcription replaced a document that had been translated: the current
\* document is a transcription result again, after an invocation that raised
C18_Witness ==
    /\ failures = 1
    /\ pc["s1"] = "idle"
    /\ HasDoc("s1")
    /\ rollback["s1"].phase = "kept"
    /\ parent["s1"] = PyNone
    /\ CurrentDoc("s1") \in TranscriptionResults

\* C20: whenever the session has a backup, it is the object the current
\* document was translated from, or the current document itself.
C20_BackupBelongsToCurrent ==
    \A s \in Sessions :
        K_original_subs \in DOMAIN session_state[s] =>
            \/ session_state[s][K_original_subs] = parent[s]
            \/ session_state[s][K_original_subs] = session_state[s][K_transcribed_subs]

-----------------------------------------------------------------------------
(* The translation model: C14, under SpecResource *)

\* C14: for every model_name at most one backend has been constructed, every
\* call with it was handed the same instance, and that instance is the stored
\* one.
C14_OneBackendPerName ==
    \A model_name \in TranslationModels :
        /\ Count(tmBuilt, model_name) <= 1
        /\ Cardinality(DocsOf(tmGot, model_name)) <= 1
        /\ model_name \in DOMAIN tmGot
              => /\ ResourceKey(model_name) \in DOMAIN tmStore
                 /\ tmGot[model_name] = {tmStore[ResourceKey(model_name)]}
                 /\ Count(tmBuilt, model_name) = 1

\* a session that missed waits for the lock while the other has built and
\* stored the backend of the same name, after a construction that raised
C14_Witness ==
    /\ tmPc["s1"].at = "wait"
    /\ tmPc["s2"] = Outside
    /\ ResourceKey(tmPc["s1"].model_name) \in DOMAIN tmStore
    /\ Count(tmBuilt, tmPc["s1"].model_name) = 1
    /\ tmRaised = 1

-----------------------------------------------------------------------------
(* The cache key: C15, under SpecKey *)

\* C15: calls whose arguments are equal share one entry: the model has been
\* invoked once for every triple called with, dicts compared as Python
\* compares them, and the store has one entry for each.
C15_OneEntryPerEqualTriple ==
    /\ \A a \in DOMAIN invoked : invoked[a] = 1
    /\ Cardinality(DOMAIN cache) = Cardinality(DOMAIN invoked)

-----------------------------------------------------------------------------
(* Coercing a returned config: C16, under SpecCoerce *)

\* C16: the call on the config a successful call returned succeeds and returns
\* that config.
C16_RoundTrip ==
    cRound.called =>
        /\ cRound.errors = <<>>
        /\ cRound.ret = cResult.ret

-----------------------------------------------------------------------------
(* The cache and the sessions' objects: C19, under SpecShare *)

\* the objects the entries of a session refer to
ObjectsOf(s) ==
    {session_state[s][k].n :
        k \in {x \in DOMAIN session_state[s] : session_state[s][x].t = "ref"}}

\* C19: whatever the sessions have edited, translated and reloaded, the store
\* holds for every key a document as the model produces them, every call with
\* one triple returned the same document, and no object is referred to by two
\* sessions.
C19_CacheIsolated ==
    /\ \A k \in DOMAIN cache : cache[k] \in TranscriptionResults
    /\ \A a \in DOMAIN returned :
          /\ Cardinality(returned[a]) = 1
          /\ returned[a] \subseteq
                {cache[k] : k \in {x \in DOMAIN cache : ArgsOf(x[1], x[2], x[3]) = a}}
    /\ \A s1 \in Sessions : \A s2 \in Sessions \ {s1} :
          ObjectsOf(s1) \cap ObjectsOf(s2) = {}

\* one session edited and translated its document and rolled back; the other
\* then holds the document as transcribed
C19_Witness ==
    /\ HasDoc("s1")
    /\ HasDoc("s2")
    /\ rollback["s1"].phase = "reloaded"
    /\ \E i \in 1..Len(CurrentDoc("s1")) : CurrentDoc("s1")[i].text \in EditTexts
    /\ CurrentDoc("s2") \in TranscriptionResults
    /\ Len(CurrentDoc("s2")) = Len(CurrentDoc("s1"))
-----------------------------------------------------------------------------
(* Edits and the backup: C21, no-op handlers: C22, under SpecDoc *)

\* C21: a text edit leaves the entries of the backup as they were.
C21_EditKeepsBackup ==
    [][\A s \in Sessions :
          (Edit(s) /\ K_original_subs \in DOMAIN session_state[s])
          => /\ K_original_subs \in DOMAIN session_state'[s]
             /\ heap'[session_state'[s][K_original_subs].n] = OriginalDoc(s)]_vars

\* C22: Translate with no current document reports it, creates no entry and no
\* document; Reload with no backup reports it and leaves the session and every
\* document as they were; Reload with a backup makes the backup current, and on
\* a state where the backup is current already it changes nothing.
C22_NoOpHandlers ==
    [][\A s \in Sessions :
          /\ TranslateNothing(s)
             => /\ session_state'[s] = session_state[s]
                /\ K_transcribed_subs \notin DOMAIN session_state'[s]
                /\ K_original_subs \notin DOMAIN session_state'[s]
                /\ heap' = heap
                /\ rollback' = rollback
                /\ notification'[s] = <<NoSubtitles>>
          /\ (Reload(s) /\ K_original_subs \notin DOMAIN session_state[s])
             => /\ session_state'[s] = session_state[s]
                /\ heap' = heap
                /\ notification'[s] = <<AlreadyLoaded>>
          /\ (Reload(s) /\ K_original_subs \in DOMAIN session_state[s])
             => /\ session_state'[s][K_transcribed_subs]
                      = session_state'[s][K_original_subs]
                /\ session_state'[s][K_original_subs]
                      = session_state[s][K_original_subs]
                /\ CurrentDocNext(s) = OriginalDoc(s)
                /\ (HasDoc(s) /\ session_state[s][K_transcribed_subs]
                                   = session_state[s][K_original_subs])
                   => /\ session_state'[s] = session_state[s]
                      /\ heap' = heap
                      /\ rollback' = rollback]_vars

\* Reload was pressed with an edited current document and no backup: the
\* document is as edited
C22_Witness ==
    /\ notification["s1"] = <<AlreadyLoaded>>
    /\ HasDoc("s1")
    /\ K_original_subs \notin DOMAIN session_state["s1"]
    /\ \E i \in 1..Len(CurrentDoc("s1")) : CurrentDoc("s1")[i].text \in EditTexts
-----------------------------------------------------------------------------
(* File mode 'Youtube': C23, under SpecYoutube *)

\* the entries of a session that are not downloads
ReservedKeys == {K_file_path, K_transcribed_subs, K_original_subs}

\* C23: no URL has been downloaded twice in a session; a rerun that completes
\* leaves file_path empty or the path downloaded for the entered URL, and the
\* entry it reads or writes under the URL is none of 'file_path',
\* 'transcribed_subs' and 'original_subs'.
C23_YoutubeEntries ==
    [][\A s \in Sessions :
          YoutubeRerun(s) =>
              /\ \A u \in DOMAIN downloaded'[s] : downloaded'[s][u] <= 1
              /\ ~(/\ ytUrl'[s] # ""
                    /\ UrlKey(ytUrl'[s]) \notin DOMAIN session_state[s]
                    /\ session_state'[s] = session_state[s])
                    => session_state'[s][K_file_path]
                          \in {EmptyStr, DownloadPath(ytUrl'[s])}
              /\ (ytUrl'[s] # "" /\ UrlKey(ytUrl'[s]) \in DOMAIN session_state'[s])
                    => UrlKey(ytUrl'[s]) \notin ReservedKeys]_vars
====
